---- MODULE Spec2Model ----
(***************************************************************************)
(* WaterBuffer (src/src/buffer/mod.rs): a growable contiguous byte buffer  *)
(* with a linear (append / advance / compact / grow) build and a           *)
(* fixed-capacity ring build (feature "circular_buffer").                  *)
(*                                                                         *)
(* The buffer's fields are the variables.  Every method is a pure operator *)
(* from a buffer record to the SET of buffer records the call can produce  *)
(* (more than one only where the source has undefined behaviour or where   *)
(* debug and release builds differ), and one action applies it.            *)
(***************************************************************************)
EXTENDS Integers, Naturals, Sequences, FiniteSets, TLC

VARIABLES
    mode,                 \* "linear" | "circular": the cfg(feature = "circular_buffer") build
    cap,                  \* WaterBuffer.cap
    start_pos,            \* WaterBuffer.start_pos
    filled_data_length,   \* WaterBuffer.filled_data_length
    circular_position,    \* Option<usize>: {} is None, {p} is Some(p)
    mem,                  \* the block behind WaterBuffer.pointer, offset -> cell
    panic,                \* "" or the message the last call panicked with
    written,              \* history: bytes appended since construction or the last reset
    consumed,             \* history: bytes advanced since construction or the last reset
    twin,                 \* Some(a second WaterBuffer given the same calls) or NoTwin
    heap                  \* the allocator's blocks and the handles on them, or NoHeap

vars == <<mode, cap, start_pos, filled_data_length, circular_position, mem,
          panic, written, consumed, twin, heap>>

-----------------------------------------------------------------------------
(* Bounds of the model. *)

\* with_capacity(c) is explored for c in 0..MaxInitCap
MaxInitCap == 3
\* extend_from_slice is explored for slices of at most MaxSlice bytes
MaxSlice == 3
\* at most MaxWritten bytes are appended between two resets
MaxWritten == 4

\* The whole public interface (SpecPublic) is explored from with_capacity(c)
\* for c in 0..MaxPublicCap, with slices and advance_mut arguments of at most
\* MaxPublicSlice, at most MaxPublicWritten bytes appended between two
\* resets, and expand(n) for n in 0..MaxExpand on blocks it keeps within
\* MaxPublicCap + MaxExpand cells.
MaxPublicCap == 2
MaxPublicSlice == 2
MaxPublicWritten == 2
MaxExpand == 1
\* The long runs behind a write outside the allocation (SpecDeep) start at
\* with_capacity(DeepCap) and append at most MaxDeepWritten bytes.
DeepCap == 3
MaxDeepWritten == 7

\* The byte values written.  No operation inspects a byte, so two values are
\* enough to tell any two positions apart.
Byte == {0, 1}

\* A cell that holds no byte the program wrote: uninitialised memory, or
\* memory outside the allocation whose content something else decides.
Indet == -1

\* usize arithmetic wraps in a release build.  TLC's integers are 32-bit, so
\* the model's usize is 30 bits wide; every other quantity stays far below.
UsizeModulus == 1073741824

\* the slices of at most n bytes over the byte values B
SlicesOf(B, n) == UNION {[1..k -> B] : k \in 0..n}

Max(a, b) == IF a >= b THEN a ELSE b
Min(a, b) == IF a <= b THEN a ELSE b

-----------------------------------------------------------------------------
(* Memory.  mem is a function on 0..N-1 with N >= cap in every state the   *)
(* safe paths reach; cells at offsets >= cap exist only after a write      *)
(* outside the allocation.                                                 *)

MemSize(m) == Cardinality(DOMAIN m)

Load(m, i) == IF i \in DOMAIN m THEN m[i] ELSE Indet

\* alloc(Layout::array::<u8>(c)): c uninitialised cells
Alloc(c) == [i \in 0..(c - 1) |-> Indet]

\* ptr::copy_nonoverlapping(s, pointer.add(off), Len(s)) for a source outside
\* the block.  A byte stored at an offset >= c is outside the allocation: it
\* lands there (lands) or something else owns the cell.
WriteBytes(m, c, off, s, lands) ==
    [i \in 0..(Max(MemSize(m), IF Len(s) > 0 THEN off + Len(s) ELSE 0) - 1) |->
        IF i >= off /\ i < off + Len(s)
        THEN (IF i < c \/ lands THEN s[i - off + 1] ELSE Indet)
        ELSE Load(m, i)]

\* the outcomes of a store of n bytes at off: one inside the allocation
Lands(c, off, n) == IF n > 0 /\ off + n > c THEN BOOLEAN ELSE {TRUE}

\* realloc(pointer, Layout(oldc), newc): the first oldc bytes are kept; what
\* lay beyond them survives only when the block grows in place.
Realloc(m, oldc, newc) ==
    { [i \in 0..(Max(newc, MemSize(m)) - 1) |-> Load(m, i)],
      [i \in 0..(newc - 1) |-> IF i < oldc THEN Load(m, i) ELSE Indet] }

-----------------------------------------------------------------------------
(* The buffer as a value, and the methods of impl WaterBuffer<u8>.          *)

None == {}
Some(p) == {p}
Unwrap(o) == CHOOSE p \in o : TRUE

\* The buffer the variables hold, as the receiver of a call.
Buf ==
    [cap |-> cap, start_pos |-> start_pos,
     filled_data_length |-> filled_data_length,
     circular_position |-> circular_position, mem |-> mem, panic |-> ""]

Panicked(b, msg) == [b EXCEPT !.panic = msg]

\* a - b in usize, as a release build computes it
WrapSub(a, b) == (a - b) % UsizeModulus

\* what a debug build (overflow checks on) panics with where a - b wraps
SubOverflow == "attempt to subtract with overflow"

with_capacity(c) ==
    [cap |-> c, start_pos |-> 0, filled_data_length |-> 0,
     circular_position |-> None, mem |-> Alloc(c), panic |-> ""]

\* expand that takes n for the new capacity
expand_to(b, n) ==
    { [b EXCEPT !.cap = n, !.mem = m] : m \in Realloc(b.mem, b.cap, n) }

\* n += self.cap; realloc(..., n); self.cap = n
expand(b, n) ==
    { [b EXCEPT !.cap = n + b.cap, !.mem = m] : m \in Realloc(b.mem, b.cap, n + b.cap) }

\* ap_size that grows by the old capacity whatever is asked for
ap_size_ignoring_needed(b, additional) ==
    IF b.cap = 0 THEN 64 ELSE b.cap

\* ap_size that asks for the bytes to write and no more
ap_size_exact(b, additional) == additional

ap_size(b, additional) ==
    IF b.cap = 0
    THEN (IF additional < 64 THEN 64 ELSE additional)
    ELSE LET needed == b.filled_data_length + additional
             dbl    == b.cap * 2
         IN  IF dbl > needed THEN dbl ELSE needed

\* The cell at offset i of the destination after memcpy ran from the last
\* byte down to the first with the source sp cells above the destination.
RECURSIVE BackCopy(_, _, _, _)
BackCopy(m, sp, n, i) ==
    IF sp + i < n THEN BackCopy(m, sp, n, sp + i) ELSE Load(m, sp + i)

\* ptr::copy_nonoverlapping(pointer.add(start_pos), pointer, filled_data_length);
\* start_pos = 0.  With 0 < start_pos < filled_data_length the two ranges
\* overlap, which copy_nonoverlapping leaves undefined: the bytes arrive as a
\* low-to-high copy leaves them or as a high-to-low copy does.
shift_data(b) ==
    LET n   == b.filled_data_length
        sp  == b.start_pos
        top == Max(MemSize(b.mem), n)
        moved(lands, back) ==
            [i \in 0..(top - 1) |->
                IF i < n
                THEN (IF i < b.cap \/ lands
                      THEN (IF back THEN BackCopy(b.mem, sp, n, i) ELSE Load(b.mem, sp + i))
                      ELSE Indet)
                ELSE Load(b.mem, i)]
        orders == IF sp > 0 /\ sp < n THEN BOOLEAN ELSE {FALSE}
    IN  { [b EXCEPT !.mem = moved(lands, back), !.start_pos = 0] :
            lands \in Lands(b.cap, 0, n), back \in orders }

available(b) == WrapSub(b.cap, b.filled_data_length)

\* len(): the ring build caps it at cap
len(md, b) ==
    IF md = "circular" /\ b.filled_data_length >= b.cap
    THEN b.cap
    ELSE b.filled_data_length

\* Index<RangeFull>: the cells &b[..] covers, as a sequence
View(md, b) ==
    IF md = "circular" /\ b.filled_data_length > b.cap
    THEN [i \in 1..b.cap |-> Load(b.mem, i - 1)]
    ELSE [i \in 1..b.filled_data_length |-> Load(b.mem, b.start_pos + i - 1)]

\* <[u8]>::is_empty through Deref
is_empty(md, b) == Len(View(md, b)) = 0

reset(b) ==
    [b EXCEPT !.start_pos = 0, !.filled_data_length = 0, !.circular_position = None]

clear(b) == reset(b)

\* un_initialized_remaining(), linear build
un_initialized_remaining(b) == WrapSub(b.cap, b.filled_data_length)

\* BufMut::remaining_mut
remaining_mut(b) == un_initialized_remaining(b)

\* advance that shortens the window and leaves its start where it was
advance_keeping_start(b, n) ==
    IF n > b.filled_data_length
    THEN Panicked(b, "Insufficient space to advance")
    ELSE [b EXCEPT !.filled_data_length = b.filled_data_length - n]

\* advance that consumes what there is when asked for more
advance_truncating(b, n) ==
    LET k == Min(n, b.filled_data_length)
    IN  [b EXCEPT !.start_pos = b.start_pos + k,
                  !.filled_data_length = b.filled_data_length - k]

\* advance that rewinds the cursor once the window is empty
advance_resetting(b, n) ==
    IF n > b.filled_data_length
    THEN Panicked(b, "Insufficient space to advance")
    ELSE IF n = b.filled_data_length
         THEN [b EXCEPT !.start_pos = 0, !.filled_data_length = 0]
         ELSE [b EXCEPT !.start_pos = b.start_pos + n,
                        !.filled_data_length = b.filled_data_length - n]

advance(b, n) ==
    IF n > b.filled_data_length
    THEN Panicked(b, "Insufficient space to advance")
    ELSE [b EXCEPT !.start_pos = b.start_pos + n,
                   !.filled_data_length = b.filled_data_length - n]

advance_mut(b, n) == [b EXCEPT !.filled_data_length = b.filled_data_length + n]

\* reserve that also grows when the bytes fit the room exactly
reserve_growing_at_exact_fit(b, n) ==
    LET b1   == IF is_empty("linear", b) THEN clear(b) ELSE b
        raw_available == WrapSub(b1.cap, b1.start_pos + b1.filled_data_length)
    IN  IF raw_available <= n THEN expand(b1, ap_size(b1, n)) ELSE {b1}

\* reserve(len), linear build.  Its three subtractions are unchecked: where
\* one wraps, a debug build panics and a release build goes on with the
\* wrapped value.
reserve(b, n) ==
    LET b1   == IF is_empty("linear", b) THEN clear(b) ELSE b
        used == b1.start_pos + b1.filled_data_length
        raw_available == WrapSub(b1.cap, used)
        early == n < remaining_mut(b1)
        wraps == b1.filled_data_length > b1.cap \/ (~early /\ used > b1.cap)
        release ==
            IF early THEN {b1}
            ELSE IF raw_available < n
                 THEN (IF b1.start_pos >= b1.filled_data_length /\ available(b1) >= n
                       THEN shift_data(b1)
                       ELSE expand(b1, ap_size(b1, n)))
                 ELSE {b1}
    IN  release \cup (IF wraps THEN {Panicked(b1, SubOverflow)} ELSE {})

\* the store of slice s at start_pos + filled_data_length, then the length update
Append_at_end(b, s) ==
    LET off == b.start_pos + b.filled_data_length
    IN  { [b EXCEPT !.mem = WriteBytes(b.mem, b.cap, off, s, lands),
                    !.filled_data_length = b.filled_data_length + Len(s)] :
            lands \in Lands(b.cap, off, Len(s)) }

\* extend_from_slice, linear build
extend_from_slice(b, s) ==
    UNION { IF r.panic /= "" THEN {r} ELSE Append_at_end(r, s) : r \in reserve(b, Len(s)) }

\* push that stores without making room
push_without_room(b, item) == Append_at_end(b, <<item>>)

\* push, linear build
push(b, item) ==
    LET room ==
            IF b.start_pos + b.filled_data_length >= b.cap
            THEN (IF b.start_pos > 0
                  THEN shift_data(b)
                  ELSE expand(b, IF b.cap = 0 THEN 64 ELSE b.cap))
            ELSE {b}
    IN  UNION { Append_at_end(r, <<item>>) : r \in room }

\* capacity(): self.cap - self.filled_data_length, unchecked
capacity(b) == WrapSub(b.cap, b.filled_data_length)

\* chunk_mut(): the offset and the length of the view it returns.  The
\* linear build computes cap - pos unchecked; the ring build returns the
\* empty view once pos >= cap.
chunk_mut(md, b) ==
    LET pos == b.start_pos + b.filled_data_length
    IN  [off |-> pos,
         len |-> IF md = "circular" /\ pos >= b.cap THEN 0 ELSE WrapSub(b.cap, pos)]

\* The caller stores the bytes s at the front of the view chunk_mut() returned;
\* the slice's bounds check keeps the stores inside the view's length.
chunk_mut_store(md, b, s) ==
    LET c == chunk_mut(md, b)
        pos == b.start_pos + b.filled_data_length
    IN  (IF Len(s) <= c.len
         THEN { [b EXCEPT !.mem = WriteBytes(b.mem, b.cap, c.off, s, lands)] :
                  lands \in Lands(b.cap, c.off, Len(s)) }
         ELSE {})
        \cup (IF md = "linear" /\ pos > b.cap THEN {Panicked(b, SubOverflow)} ELSE {})

-----------------------------------------------------------------------------
(* The ring build (feature "circular_buffer").                             *)

\* that iteration with the cursor wrapped only once it is past cap
extend_step_late_wrap(b, slice) ==
    LET filled == b.filled_data_length + b.start_pos
        b1  == IF b.circular_position = None /\ filled >= b.cap
               THEN [b EXCEPT !.circular_position = Some(0)]
               ELSE b
        p0  == IF b.circular_position /= None THEN Unwrap(b.circular_position)
               ELSE IF filled >= b.cap THEN 0 ELSE filled
        position_to_write == IF p0 >= b.cap THEN 0 ELSE p0
        available_len == Min(b.cap - position_to_write, Len(slice))
        m1  == WriteBytes(b.mem, b.cap, position_to_write, SubSeq(slice, 1, available_len), TRUE)
        cp1 == IF b1.circular_position /= None
               THEN Unwrap(b1.circular_position) + available_len
               ELSE position_to_write + available_len
    IN  IF b1.filled_data_length < b1.cap
        THEN [b1 EXCEPT !.mem = m1,
                        !.filled_data_length = b1.filled_data_length + available_len]
        ELSE [b1 EXCEPT !.mem = m1,
                        !.circular_position = Some(IF cp1 > b1.cap THEN 0 ELSE cp1)]

\* One iteration of extend_from_slice's while loop on the bytes still to write.
extend_step(b, slice) ==
    LET filled == b.filled_data_length + b.start_pos
        \* unwrap_or_else: the closure runs only for None, and sets Some(0) at a full block
        b1  == IF b.circular_position = None /\ filled >= b.cap
               THEN [b EXCEPT !.circular_position = Some(0)]
               ELSE b
        p0  == IF b.circular_position /= None THEN Unwrap(b.circular_position)
               ELSE IF filled >= b.cap THEN 0 ELSE filled
        position_to_write == IF p0 >= b.cap THEN 0 ELSE p0
        available_len == Min(b.cap - position_to_write, Len(slice))
        m1  == WriteBytes(b.mem, b.cap, position_to_write, SubSeq(slice, 1, available_len), TRUE)
        cp1 == IF b1.circular_position /= None
               THEN Unwrap(b1.circular_position) + available_len
               ELSE position_to_write + available_len
    IN  IF b1.filled_data_length < b1.cap
        THEN [b1 EXCEPT !.mem = m1,
                        !.filled_data_length = b1.filled_data_length + available_len]
        ELSE [b1 EXCEPT !.mem = m1,
                        !.circular_position = Some(IF cp1 >= b1.cap THEN 0 ELSE cp1)]

\* an iteration that leaves the last cell of the block to the next one
step_len_short(b, slice) ==
    LET filled == b.filled_data_length + b.start_pos
        p0  == IF b.circular_position /= None THEN Unwrap(b.circular_position)
               ELSE IF filled >= b.cap THEN 0 ELSE filled
        position_to_write == IF p0 >= b.cap THEN 0 ELSE p0
    IN  Min(b.cap - 1 - position_to_write, Len(slice))

\* how many bytes that iteration consumes
step_len(b, slice) ==
    LET filled == b.filled_data_length + b.start_pos
        p0  == IF b.circular_position /= None THEN Unwrap(b.circular_position)
               ELSE IF filled >= b.cap THEN 0 ELSE filled
        position_to_write == IF p0 >= b.cap THEN 0 ELSE p0
    IN  Min(b.cap - position_to_write, Len(slice))

\* what a call that never returns is marked with
Spins == "extend_from_slice does not return"

\* while must_write_len > 0 { ... }: an iteration that consumes nothing
\* leaves must_write_len as it was, and the loop repeats it for ever
RECURSIVE extend_loop(_, _)
extend_loop(b, slice) ==
    IF Len(slice) = 0 THEN b
    ELSE IF step_len(b, slice) = 0 THEN Panicked(b, Spins)
    ELSE extend_loop(extend_step(b, slice),
                     SubSeq(slice, step_len(b, slice) + 1, Len(slice)))

\* the iterations of that loop and the bytes they consume, up to an
\* iteration that consumes nothing
RECURSIVE extend_run(_, _)
extend_run(b, slice) ==
    IF Len(slice) = 0 \/ step_len(b, slice) = 0
    THEN [iterations |-> 0, consumed |-> 0]
    ELSE LET rest == extend_run(extend_step(b, slice),
                                SubSeq(slice, step_len(b, slice) + 1, Len(slice)))
         IN  [iterations |-> rest.iterations + 1,
              consumed |-> rest.consumed + step_len(b, slice)]

\* extend_from_slice that stops at the end of the block instead of wrapping
extend_from_slice_circular_no_wrap(b, s) ==
    IF b.cap = 0 \/ Len(s) = 0 THEN b
    ELSE LET r == extend_step(b, s)
         IN  IF r.filled_data_length >= r.cap
             THEN [r EXCEPT !.filled_data_length = r.cap]
             ELSE r

\* extend_from_slice that sets the cursor as soon as the block is full
extend_from_slice_circular_cursor_at_fill(b, s) ==
    IF b.cap = 0 THEN b
    ELSE LET r == extend_loop(b, s)
         IN  IF r.filled_data_length >= r.cap
             THEN [r EXCEPT !.filled_data_length = r.cap,
                            !.circular_position =
                                IF r.circular_position = None THEN Some(0)
                                ELSE r.circular_position]
             ELSE r

\* extend_from_slice, ring build
extend_from_slice_circular(b, s) ==
    IF b.cap = 0 THEN b
    ELSE LET r == extend_loop(b, s)
         IN  IF r.filled_data_length >= r.cap
             THEN [r EXCEPT !.filled_data_length = r.cap]
             ELSE r

\* ring push that overwrites from the cursor left by the last fill, not from 0
push_circular_from_fill(b, item) ==
    IF b.filled_data_length >= b.cap
    THEN LET p == IF b.circular_position /= None THEN Unwrap(b.circular_position)
                  ELSE b.cap - 1
             n == p + 1
         IN  { [b EXCEPT !.mem = WriteBytes(b.mem, b.cap, p, <<item>>, lands),
                         !.circular_position = Some(IF n >= b.cap THEN 0 ELSE n)] :
                 lands \in Lands(b.cap, p, 1) }
    ELSE { [b EXCEPT !.mem = WriteBytes(b.mem, b.cap, b.filled_data_length, <<item>>, lands),
                     !.filled_data_length = b.filled_data_length + 1] :
             lands \in Lands(b.cap, b.filled_data_length, 1) }

\* push, ring build.  With cap = 0 the store at offset 0 is outside the block.
push_circular(b, item) ==
    IF b.filled_data_length >= b.cap
    THEN LET p == IF b.circular_position /= None THEN Unwrap(b.circular_position) ELSE 0
             n == p + 1
         IN  { [b EXCEPT !.mem = WriteBytes(b.mem, b.cap, p, <<item>>, lands),
                         !.circular_position = Some(IF n >= b.cap THEN 0 ELSE n)] :
                 lands \in Lands(b.cap, p, 1) }
    ELSE { [b EXCEPT !.mem = WriteBytes(b.mem, b.cap, b.filled_data_length, <<item>>, lands),
                     !.filled_data_length = b.filled_data_length + 1] :
             lands \in Lands(b.cap, b.filled_data_length, 1) }

\* un_initialized_remaining that does not look at the cursor
un_initialized_remaining_ignoring_cursor(b) ==
    IF b.filled_data_length > b.cap THEN 0 ELSE b.cap - b.filled_data_length

\* un_initialized_remaining(), ring build
un_initialized_remaining_circular(b) ==
    LET pos == IF b.circular_position /= None /\ Unwrap(b.circular_position) > 0
               THEN Unwrap(b.circular_position)
               ELSE b.filled_data_length
    IN  IF pos > b.cap THEN 0 ELSE b.cap - pos

-----------------------------------------------------------------------------------------------------------------------------------------------------
(* The state machine.                                                      *)

\* no second buffer
NoTwin == None

\* the variables take the fields of r, the result of a call
Fields(r) ==
    /\ cap' = r.cap
    /\ start_pos' = r.start_pos
    /\ filled_data_length' = r.filled_data_length
    /\ circular_position' = r.circular_position
    /\ mem' = r.mem
    /\ panic' = r.panic

\* the blocks are not followed
NoHeap == None

\* a call on the one buffer
Becomes(r) == Fields(r) /\ UNCHANGED <<twin, heap>>

\* a call that appended the bytes s unless it panicked
Appended(r, s) ==
    /\ written' = (IF r.panic = "" THEN written \o s ELSE written)
    /\ UNCHANGED <<mode, consumed>>

\* with_capacity(c) in the build md
Constructed(md, c) ==
    /\ mode = md
    /\ cap = with_capacity(c).cap
    /\ start_pos = with_capacity(c).start_pos
    /\ filled_data_length = with_capacity(c).filled_data_length
    /\ circular_position = with_capacity(c).circular_position
    /\ mem = with_capacity(c).mem
    /\ panic = ""
    /\ written = <<>>
    /\ consumed = 0
    /\ twin = NoTwin
    /\ heap = NoHeap

Init == \E md \in {"linear", "circular"} : \E c \in 0..MaxInitCap : Constructed(md, c)

\* push(item), linear build, for an item of B while fewer than w bytes are written
PushOf(B, w) ==
    /\ mode = "linear"
    /\ Len(written) < w
    /\ \E item \in B : \E r \in push(Buf, item) :
          Becomes(r) /\ Appended(r, <<item>>)

\* extend_from_slice(s), linear build, for a slice of at most n bytes of B
ExtendOf(B, n, w) ==
    /\ mode = "linear"
    /\ \E s \in SlicesOf(B, n) :
          /\ Len(written) + Len(s) <= w
          /\ \E r \in extend_from_slice(Buf, s) : Becomes(r) /\ Appended(r, s)

Push == PushOf(Byte, MaxWritten)

ExtendFromSlice == ExtendOf(Byte, MaxSlice, MaxWritten)

\* push(item), ring build
PushCircularOf(B, w) ==
    /\ mode = "circular"
    /\ Len(written) < w
    /\ \E item \in B : \E r \in push_circular(Buf, item) :
          Becomes(r) /\ Appended(r, <<item>>)

\* extend_from_slice(s), ring build
ExtendCircularOf(B, n, w) ==
    /\ mode = "circular"
    /\ \E s \in SlicesOf(B, n) :
          /\ Len(written) + Len(s) <= w
          /\ Becomes(extend_from_slice_circular(Buf, s))
          /\ Appended(Buf, s)

PushCircular == PushCircularOf(Byte, MaxWritten)

ExtendFromSliceCircular == ExtendCircularOf(Byte, MaxSlice, MaxWritten)

\* advance(n) for one n, panicking or not
AdvanceBy(n) ==
    LET r == advance(Buf, n)
    IN  /\ Becomes(r)
        /\ consumed' = (IF r.panic = "" THEN consumed + n ELSE consumed)
        /\ UNCHANGED <<mode, written>>

\* the arguments advance is called with
AdvanceArgs == 0..(MaxSlice + 1)

Advance == \E n \in AdvanceArgs : AdvanceBy(n)

Reset ==
    /\ Becomes(reset(Buf))
    /\ written' = <<>>
    /\ consumed' = 0
    /\ UNCHANGED mode

Clear ==
    /\ Becomes(clear(Buf))
    /\ written' = <<>>
    /\ consumed' = 0
    /\ UNCHANGED mode

\* The write and consume operations of both builds.
Next ==
    \/ Push
    \/ ExtendFromSlice
    \/ PushCircular
    \/ ExtendFromSliceCircular
    \/ Advance
    \/ Reset
    \/ Clear

Spec == Init /\ [][Next]_vars

-----------------------------------------------------------------------------------------------------------------------------------------------------
(* The whole public interface.  Its state space is that of the write and   *)
(* consume operations times what expand, advance_mut and the stores through*)
(* chunk_mut add, so it is explored with one byte value and fewer bytes.   *)

PublicByte == {0}

PushPublic == PushOf(PublicByte, MaxPublicWritten)

ExtendFromSlicePublic == ExtendOf(PublicByte, MaxPublicSlice, MaxPublicWritten)

PushCircularPublic == PushCircularOf(PublicByte, MaxPublicWritten)

ExtendFromSliceCircularPublic ==
    ExtendCircularOf(PublicByte, MaxPublicSlice, MaxPublicWritten)

AdvancePublic == \E n \in 0..(MaxPublicSlice + 1) : AdvanceBy(n)

\* reserve(n) for an n of at most m
ReserveOf(m) ==
    /\ mode = "linear"
    /\ \E n \in 0..m : \E r \in reserve(Buf, n) : Becomes(r)
    /\ UNCHANGED <<mode, written, consumed>>

Reserve == ReserveOf(MaxPublicSlice)

\* expand(n) for an n of at most m, up to the capacity c
ExpandOf(m, c) ==
    /\ \E n \in 0..m :
          /\ cap + n <= c
          /\ \E r \in expand(Buf, n) : Becomes(r)
    /\ UNCHANGED <<mode, written, consumed>>

Expand == ExpandOf(MaxExpand, MaxPublicCap + MaxExpand)

\* advance_mut(n) for an n of at most m: the n cells after the window join
\* it, whatever they hold
AdvanceMutOf(m, w) ==
    /\ \E n \in 0..m :
          /\ Len(written) + n <= w
          /\ Becomes(advance_mut(Buf, n))
          /\ written' = written \o
                [i \in 1..n |-> Load(mem, start_pos + filled_data_length + i - 1)]
    /\ UNCHANGED <<mode, consumed>>

AdvanceMut == AdvanceMutOf(MaxPublicSlice, MaxPublicWritten)

\* chunk_mut(), and the caller's stores through the view
ChunkMut ==
    /\ \E s \in SlicesOf(PublicByte, MaxPublicSlice) :
          \E r \in chunk_mut_store(mode, Buf, s) : Becomes(r)
    /\ UNCHANGED <<mode, written, consumed>>

InitPublic ==
    \E md \in {"linear", "circular"} : \E c \in 0..MaxPublicCap : Constructed(md, c)

\* Every public operation of both builds.
NextPublic ==
    \/ PushPublic
    \/ ExtendFromSlicePublic
    \/ PushCircularPublic
    \/ ExtendFromSliceCircularPublic
    \/ AdvancePublic
    \/ Reset
    \/ Clear
    \/ Reserve
    \/ Expand
    \/ AdvanceMut
    \/ ChunkMut

SpecPublic == InitPublic /\ [][NextPublic]_vars

-----------------------------------------------------------------------------
(* Long runs of the linear build's write and consume operations from one   *)
(* capacity, with one byte value.                                          *)

DeepByte == {0}

PushDeep == PushOf(DeepByte, MaxDeepWritten)

ExtendFromSliceDeep == ExtendOf(DeepByte, MaxSlice, MaxDeepWritten)

InitDeep == Constructed("linear", DeepCap)

NextDeep ==
    \/ PushDeep
    \/ ExtendFromSliceDeep
    \/ Advance

SpecDeep == InitDeep /\ [][NextDeep]_vars

-----------------------------------------------------------------------------
(* A ring buffer and a linear buffer of the same capacity given the same   *)
(* push, extend_from_slice and advance calls, for as long as start_pos +   *)
(* len() is below cap in both.                                             *)

MaxTwinCap == 3
MaxTwinSlice == 2
MaxTwinWritten == 3

\* the linear buffer, as the receiver of a call
TwinBuf == [Unwrap(twin) EXCEPT !.panic = ""]

\* start_pos + len() is below cap
Below(md, b) == b.start_pos + len(md, b) < b.cap

BothBelow == Below("circular", Buf) /\ Below("linear", TwinBuf)

PushTwin ==
    /\ BothBelow
    /\ Len(written) < MaxTwinWritten
    /\ \E item \in Byte :
          \E r \in push_circular(Buf, item) : \E t \in push(TwinBuf, item) :
              Fields(r) /\ twin' = Some(t) /\ Appended(r, <<item>>)
    /\ UNCHANGED heap

ExtendFromSliceTwin ==
    /\ BothBelow
    /\ \E s \in SlicesOf(Byte, MaxTwinSlice) :
          /\ Len(written) + Len(s) <= MaxTwinWritten
          /\ \E t \in extend_from_slice(TwinBuf, s) :
                Fields(extend_from_slice_circular(Buf, s)) /\ twin' = Some(t) /\ Appended(Buf, s)
    /\ UNCHANGED heap

AdvanceTwin ==
    /\ BothBelow
    /\ \E n \in 0..(MaxTwinSlice + 1) :
          LET r == advance(Buf, n)
          IN  /\ Fields(r)
              /\ twin' = Some(advance(TwinBuf, n))
              /\ consumed' = (IF r.panic = "" THEN consumed + n ELSE consumed)
    /\ UNCHANGED <<mode, written, heap>>

InitTwin ==
    \E c \in 0..MaxTwinCap :
        /\ mode = "circular"
        /\ cap = with_capacity(c).cap
        /\ start_pos = with_capacity(c).start_pos
        /\ filled_data_length = with_capacity(c).filled_data_length
        /\ circular_position = with_capacity(c).circular_position
        /\ mem = with_capacity(c).mem
        /\ panic = ""
        /\ written = <<>>
        /\ consumed = 0
        /\ twin = Some(with_capacity(c))
        /\ heap = NoHeap

NextTwin ==
    \/ PushTwin
    \/ ExtendFromSliceTwin
    \/ AdvanceTwin

SpecTwin == InitTwin /\ [][NextTwin]_vars

-----
(* What the claims read.                                                   *)

\* len() and &b[..] of the buffer the variables hold
LenNow == len(mode, Buf)
ViewNow == View(mode, Buf)

\* the bytes appended and not yet advanced over
Pending == SubSeq(written, consumed + 1, Len(written))

\* the last n elements of s
LastOf(s, n) == SubSeq(s, Len(s) - n + 1, Len(s))

\* the index of the last byte written that went to offset i of a ring of c cells
LastAt(i, c, k) ==
    CHOOSE j \in 0..(k - 1) :
        /\ j % c = i
        /\ \A j2 \in 0..(k - 1) : j2 % c = i => j2 <= j

-----------------------------------------------------------------------------
(* C1..C10                                                                 *)

\* C1: linear build, after any sequence of push, extend_from_slice, advance,
\* reset and clear: start_pos + filled_data_length <= cap.
C1_WindowInsideAllocation ==
    mode = "linear" => start_pos + filled_data_length <= cap

\* C2: linear build with nothing advanced: &b[..] is the concatenation of all
\* appended bytes in call order and len() is their count.
C2_AppendReadRoundTrip ==
    (mode = "linear" /\ consumed = 0) =>
        /\ ViewNow = written
        /\ LenNow = Len(written)

C2_Witness ==
    /\ mode = "linear"
    /\ consumed = 0
    /\ Len(written) = MaxWritten
    /\ cap > MaxInitCap
    /\ cap < 64
    /\ ViewNow = written

\* C3: linear build, any interleaving of push, extend_from_slice and advance:
\* &b[..] is the bytes appended so far without the advanced ones at the front,
\* and len() is appended minus advanced.
C3_FifoQueue ==
    mode = "linear" =>
        /\ ViewNow = Pending
        /\ LenNow = Len(written) - consumed

C5_PhysicalOverwrite ==
    (mode = "circular" /\ consumed = 0 /\ cap > 0) =>
        /\ Len(ViewNow) = Min(Len(written), cap)
        /\ \A i \in 0..(Len(ViewNow) - 1) :
              ViewNow[i + 1] = written[LastAt(i, cap, Len(written)) + 1]

C5_Witness ==
    /\ mode = "circular"
    /\ consumed = 0
    /\ cap = 3
    /\ Len(written) = 4
    /\ circular_position = Some(1)
    /\ ViewNow = <<written[4], written[2], written[3]>>

\* C6: advance(n) with n <= len(): len() drops by n, &b[..] loses its first n
\* bytes, start_pos grows by n, cap is unchanged.
C6_AdvanceConsumesFront ==
    [][\A n \in AdvanceArgs :
          (n <= LenNow /\ AdvanceBy(n)) =>
              /\ LenNow' = LenNow - n
              /\ ViewNow' = SubSeq(ViewNow, n + 1, Len(ViewNow))
              /\ start_pos' = start_pos + n
              /\ cap' = cap]_vars

C6_Witness ==
    /\ consumed > 0
    /\ start_pos = consumed
    /\ filled_data_length > 0
    /\ panic = ""
    /\ ViewNow = Pending

\* C7: advance(n) with n > len() panics with "Insufficient space to advance"
\* and leaves start_pos, filled_data_length and cap as they were.
C7_AdvanceTooFarPanics ==
    [][\A n \in AdvanceArgs :
          (n > LenNow /\ AdvanceBy(n)) =>
              /\ panic' = "Insufficient space to advance"
              /\ UNCHANGED <<start_pos, filled_data_length, cap>>]_vars

C7_Witness ==
    /\ panic = "Insufficient space to advance"
    /\ filled_data_length > 0
    /\ start_pos > 0

\* C8 as claimed: linear build, an advance that consumes the last valid bytes
\* leaves start_pos = 0.
C8_AdvanceToEmptyRewinds ==
    [][\A n \in AdvanceArgs :
          (mode = "linear" /\ n > 0 /\ n = filled_data_length /\ AdvanceBy(n)) =>
              start_pos' = 0]_vars

\* C8 as amended: linear build, an advance that consumes the last valid bytes
\* leaves len() = 0 and start_pos at its old value plus n, not at 0.
C8_AdvanceToEmptyKeepsCursor ==
    [][\A n \in AdvanceArgs :
          (mode = "linear" /\ n > 0 /\ n = filled_data_length /\ AdvanceBy(n)) =>
              /\ LenNow' = 0
              /\ start_pos' = start_pos + n
              /\ start_pos' > 0]_vars

C8_Witness ==
    /\ mode = "linear"
    /\ filled_data_length = 0
    /\ start_pos > 0
    /\ consumed > 0
    /\ panic = ""

C10_GrowthKeepsBytes ==
    [][((PushDeep \/ ExtendFromSliceDeep) /\ cap' /= cap) =>
          /\ cap' > cap
          /\ start_pos' + filled_data_length' <= cap'
          /\ \A i \in 1..Len(ViewNow) : ViewNow'[i] = ViewNow[i]]_vars

-----------------------------------------------------------------------------
(* Indexing and iteration.  An access returns a view, the offset of its    *)
(* first cell and its length as from_raw_parts is given them, or panics.   *)

\* the n cells from offset off on
Cells(m, off, n) == [i \in 1..n |-> Load(m, off + i - 1)]

Slice(off, n) == [panic |-> "", off |-> off, len |-> n]

RangeOutOfBounds == [panic |-> "Range out of bounds", off |-> 0, len |-> 0]

\* Index<Range<usize>>::index, &b[s..e]
index_range(b, s, e) ==
    IF s > e \/ e > b.filled_data_length
    THEN RangeOutOfBounds
    ELSE Slice(b.start_pos + s, b.start_pos + e)

\* IndexMut<Range<usize>>::index_mut, &mut b[s..e]
index_mut_range(b, s, e) ==
    IF s > e
    THEN RangeOutOfBounds
    ELSE Slice(b.start_pos + s, e + b.start_pos)

\* Index<RangeFrom<usize>>::index, &b[s..]
index_range_from(b, s) ==
    IF s > b.filled_data_length
    THEN RangeOutOfBounds
    ELSE Slice(b.start_pos + s, b.filled_data_length)

\* IndexMut<RangeFrom<usize>>::index_mut, &mut b[s..]
index_mut_range_from(b, s) ==
    IF s > b.filled_data_length
    THEN RangeOutOfBounds
    ELSE Slice(b.start_pos + s, b.filled_data_length)

\* Index<RangeTo<usize>>::index, &b[..e]
index_range_to(b, e) ==
    IF e > b.filled_data_length
    THEN RangeOutOfBounds
    ELSE Slice(b.start_pos, e)

\* IndexMut<RangeTo<usize>>::index_mut, &mut b[..e]
index_mut_range_to(b, e) ==
    IF e > b.filled_data_length
    THEN RangeOutOfBounds
    ELSE Slice(b.start_pos, e)

\* an access to one element: the offset it reads, a panic, or a loop that
\* never ends
Element(off) == [panic |-> "", hangs |-> FALSE, off |-> off]

IndexOutOfBounds == [panic |-> "Index out of bounds", hangs |-> FALSE, off |-> 0]

Hangs == [panic |-> "", hangs |-> TRUE, off |-> 0]

\* while index > filled_data_length { index -= filled_data_length }
RECURSIVE index_loop(_, _)
index_loop(index, n) == IF index > n THEN index_loop(index - n, n) ELSE index

\* Index<usize>::index, b[i]: the ring build folds the index, the linear one
\* checks it; both read pointer.add(index)
index(md, b, i) ==
    IF md = "circular"
    THEN (IF b.filled_data_length = 0 /\ i > 0
          THEN Hangs
          ELSE Element(index_loop(i, b.filled_data_length)))
    ELSE (IF i >= b.filled_data_length THEN IndexOutOfBounds ELSE Element(i))

\* IndexMut<usize>::index_mut, both builds
index_mut(b, i) ==
    IF i >= b.filled_data_length THEN IndexOutOfBounds ELSE Element(i)

\* Iterator::next of WaterBufferIter (kind "iter"), WaterBufferIterMut
\* ("iter_mut") and WaterBufferOwnedIter ("into_owned_iter") at position pos:
\* None, or Some(item) with the position moved on by one
next(kind, md, b, pos) ==
    LET item == Some(Load(b.mem, pos + b.start_pos))
    IN  IF kind = "into_owned_iter"
        THEN (IF pos >= Min(b.cap, b.filled_data_length) THEN None
              ELSE IF md = "linear" /\ pos >= b.filled_data_length THEN None
              ELSE item)
        ELSE IF md = "circular"
             THEN (IF pos >= Min(b.cap, b.filled_data_length) THEN None ELSE item)
             ELSE (IF pos >= b.filled_data_length THEN None ELSE item)

\* the items next() yields from position pos until it returns None
RECURSIVE Yields(_, _, _, _)
Yields(kind, md, b, pos) ==
    LET x == next(kind, md, b, pos)
    IN  IF x = None THEN <<>> ELSE <<Unwrap(x)>> \o Yields(kind, md, b, pos + 1)

IterKinds == {"iter", "iter_mut", "into_owned_iter"}

\* the indices and range ends the accesses are explored for
IndexArgs == 0..(2 * MaxInitCap + 1)

-----------------------------------------------------------------------------
(* C11..C20                                                                *)

\* the elements of s
Range(s) == {s[i] : i \in 1..Len(s)}

\* C11: after clear()/reset() the buffer behaves as a new with_capacity(cap)
\* one: whatever is done next, len() and &b[..] are what they would be there.
\* The cells of a new buffer hold nothing until they are written, so on it
\* &b[..] shows only bytes appended since construction, or cells nothing was
\* stored in; on a reused buffer it then shows only bytes appended since the
\* reset, or such cells, and never a byte left from before the reset.
C11_ReusedLikeFresh ==
    \A i \in 1..Len(ViewNow) : ViewNow[i] \in Range(written) \cup {Indet}

\* C12: in every reachable state of the linear build chunk_mut() is a view of
\* exactly cap - (start_pos + len()) bytes, and once the caller has stored
\* n <= that many bytes at its front and called advance_mut(n), len() is n
\* more, &b[..] is the old content followed by those bytes, and cap and
\* start_pos are what they were.
C12_ZeroCopyWrite ==
    mode = "linear" =>
        /\ chunk_mut("linear", Buf).len = cap - (start_pos + LenNow)
        /\ \A s \in SlicesOf(Byte, MaxSlice) :
              Len(s) <= cap - (start_pos + LenNow) =>
                  \A r \in chunk_mut_store("linear", Buf, s) :
                      LET r2 == advance_mut(r, Len(s))
                      IN  /\ r.panic = ""
                          /\ len("linear", r2) = LenNow + Len(s)
                          /\ View("linear", r2) = ViewNow \o s
                          /\ r2.cap = cap
                          /\ r2.start_pos = start_pos

\* C13: advance_mut(n) with n greater than the length of the view chunk_mut()
\* returns now fails, and leaves the buffer's fields as they were.
C13_CommitMismatchChecked ==
    [][(filled_data_length' - filled_data_length > chunk_mut(mode, Buf).len /\ AdvanceMut) =>
          /\ panic' /= ""
          /\ UNCHANGED <<cap, start_pos, filled_data_length, circular_position>>]_vars

\* the bytes s..e of &b[..], offsets counted from 0
Window(s, e) == SubSeq(ViewNow, s + 1, e)

\* the view x has e - s cells, and they hold the bytes s..e of &b[..]
ShowsWindow(x, s, e) ==
    /\ x.panic = ""
    /\ x.len = e - s
    /\ Cells(mem, x.off, x.len) = Window(s, e)

\* C14: for every s <= e <= len(), &b[s..e] and &mut b[s..e] have length
\* e - s and hold the bytes s..e of &b[..]; b[s..] has length len() - s and
\* b[..e] length e, each over the matching bytes, immutable or mutable.
C14_RangeViews ==
    \A s \in IndexArgs : \A e \in IndexArgs :
        (s <= e /\ e <= LenNow) =>
            /\ ShowsWindow(index_range(Buf, s, e), s, e)
            /\ ShowsWindow(index_mut_range(Buf, s, e), s, e)
            /\ ShowsWindow(index_range_from(Buf, s), s, LenNow)
            /\ ShowsWindow(index_mut_range_from(Buf, s), s, LenNow)
            /\ ShowsWindow(index_range_to(Buf, e), 0, e)
            /\ ShowsWindow(index_mut_range_to(Buf, e), 0, e)

\* C15: every range access, immutable or mutable, panics with "Range out of
\* bounds" when s > e or e > len() (b[s..]: when s > len()), and returns no
\* view then.
C15_RangeOutOfBounds ==
    \A s \in IndexArgs : \A e \in IndexArgs :
        /\ (s > e \/ e > LenNow) =>
              /\ index_range(Buf, s, e).panic = "Range out of bounds"
              /\ index_mut_range(Buf, s, e).panic = "Range out of bounds"
        /\ s > LenNow =>
              /\ index_range_from(Buf, s).panic = "Range out of bounds"
              /\ index_mut_range_from(Buf, s).panic = "Range out of bounds"
        /\ e > LenNow =>
              /\ index_range_to(Buf, e).panic = "Range out of bounds"
              /\ index_mut_range_to(Buf, e).panic = "Range out of bounds"

\* the access x reads the byte at offset i of &b[..]
ReadsWindow(x, i) ==
    /\ x.panic = ""
    /\ ~x.hangs
    /\ Load(mem, x.off) = ViewNow[i + 1]

\* C16: linear build, any reachable state: b[i] and the mutable b[i] for
\* i < len() are the byte (&b[..])[i]; for i >= len() the access panics with
\* "Index out of bounds".
C16_LinearIndex ==
    mode = "linear" =>
        \A i \in IndexArgs :
            IF i < LenNow
            THEN /\ ReadsWindow(index("linear", Buf, i), i)
                 /\ ReadsWindow(index_mut(Buf, i), i)
            ELSE /\ index("linear", Buf, i).panic = "Index out of bounds"
                 /\ index_mut(Buf, i).panic = "Index out of bounds"

\* C17: ring build, non-empty buffer: for every index i, b[i] is the byte at
\* offset i mod len() of the valid data, and the slot read is none at or
\* beyond len().
C17_CircularIndexModulo ==
    (mode = "circular" /\ LenNow > 0) =>
        \A i \in IndexArgs :
            LET x == index("circular", Buf, i)
            IN  /\ ReadsWindow(x, i % LenNow)
                /\ x.off < start_pos + LenNow

\* C18: in every reachable state iter(), iter_mut() and into_owned_iter()
\* yield exactly len() items, the bytes of &b[..] in order, and next() on the
\* exhausted iterator returns None.
C18_IterationCoversWindow ==
    \A kind \in IterKinds :
        /\ Yields(kind, mode, Buf, 0) = ViewNow
        /\ Len(Yields(kind, mode, Buf, 0)) = LenNow
        /\ next(kind, mode, Buf, LenNow) = None

C20_RingLikeLinearBelowCap ==
    (twin /= NoTwin /\ BothBelow) =>
        /\ LenNow = len("linear", TwinBuf)
        /\ ViewNow = View("linear", TwinBuf)

-----------------------------------------------------------------------------
(* The read side: the methods that take &self.  A call leaves the receiver *)
(* as it returns it; panic is the message the call ended with.             *)

\* remaining() is len()
remaining(md, b) == len(md, b)

\* chunk(), linear build: filled_data_length cells from start_pos
chunk(b) == Slice(b.start_pos, b.filled_data_length)

\* the methods and immutable Index impls called through &self
ReadOps ==
    {"len", "remaining", "capacity", "available", "un_initialized_remaining",
     "chunk", "iter", "index", "index_full", "index_range", "index_range_from",
     "index_range_to"}

\* The reads are explored next to every operation that writes, from
\* with_capacity(c) for c in 0..MaxReadCap, with slices and arguments of at
\* most MaxReadSlice, at most MaxReadWritten bytes appended between two
\* resets, and expand by at most MaxReadExpand.
MaxReadCap == 1
MaxReadSlice == 1
MaxReadWritten == 2
MaxReadExpand == 1

\* the indices and range ends of the reads
ReadArgs == 0..(MaxReadSlice + 1)

\* a traversal that consumes what it yields
read_draining(op, md, b, i, j) ==
    IF op \in {"iter", "chunk"}
    THEN {[b EXCEPT !.start_pos = b.start_pos + len(md, b),
                    !.filled_data_length = b.filled_data_length - len(md, b)]}
    ELSE {b}

\* the receiver after op(i, j) is called on b through &self: no field is
\* assigned; cap - filled_data_length panics in a debug build where it wraps,
\* a failed bounds check panics, and b[i] of the ring build may never return
read(op, md, b, i, j) ==
    LET wraps == IF b.filled_data_length > b.cap THEN {"", SubOverflow} ELSE {""}
        msgs ==
            CASE op \in {"capacity", "available"} -> wraps
              [] op = "un_initialized_remaining" ->
                    (IF md = "linear" THEN wraps ELSE {""})
              [] op = "index" ->
                    (IF index(md, b, i).hangs THEN {} ELSE {index(md, b, i).panic})
              [] op = "index_range" -> {index_range(b, i, j).panic}
              [] op = "index_range_from" -> {index_range_from(b, i).panic}
              [] op = "index_range_to" -> {index_range_to(b, j).panic}
              [] OTHER -> {""}
    IN  {Panicked(b, m) : m \in msgs}

\* the arguments op takes: an index or range start i, a range end j
ReadArgsOf(op) ==
    [i |-> IF op \in {"index", "index_range", "index_range_from"} THEN ReadArgs ELSE {0},
     j |-> IF op \in {"index_range", "index_range_to"} THEN ReadArgs ELSE {0}]

\* the receivers the read-side calls of the build md leave, over all the
\* operations and arguments
Reads(md, b) ==
    UNION {UNION {read(op, md, b, i, j) : i \in ReadArgsOf(op).i, j \in ReadArgsOf(op).j} :
             op \in (IF md = "linear" THEN ReadOps ELSE ReadOps \ {"chunk"})}

\* one call of a read-side operation
Read ==
    /\ UNCHANGED <<mode, written, consumed>>
    /\ \E r \in Reads(mode, Buf) : Becomes(r)

PushRead == PushOf(PublicByte, MaxReadWritten)

ExtendFromSliceRead == ExtendOf(PublicByte, MaxReadSlice, MaxReadWritten)

PushCircularRead == PushCircularOf(PublicByte, MaxReadWritten)

ExtendFromSliceCircularRead ==
    ExtendCircularOf(PublicByte, MaxReadSlice, MaxReadWritten)

AdvanceRead == \E n \in 0..(MaxReadSlice + 1) : AdvanceBy(n)

ReserveRead == ReserveOf(MaxReadSlice)

ExpandRead == ExpandOf(MaxReadExpand, MaxReadCap + MaxReadExpand)

AdvanceMutRead == AdvanceMutOf(MaxReadSlice, MaxReadWritten)

InitRead ==
    \E md \in {"linear", "circular"} : \E c \in 0..MaxReadCap : Constructed(md, c)

\* the write, consume and reset operations
Mutators ==
    \/ Reset
    \/ Clear
    \/ AdvanceRead
    \/ AdvanceMutRead
    \/ ReserveRead
    \/ PushRead
    \/ PushCircularRead
    \/ ExtendFromSliceRead
    \/ ExtendFromSliceCircularRead

\* Every operation of both builds that changes a field, and the reads.
NextRead ==
    \/ Mutators
    \/ ExpandRead
    \/ Read

SpecRead == InitRead /\ [][NextRead]_vars

-----------------------------------------------------------------------------
(* Ownership of the storage block: linear build with feature unsafe_clone. *)
(* heap.frees[k] is how often block k has been deallocated (0: it is       *)
(* allocated); heap.pointer is the block the buffer's pointer refers to    *)
(* (0: what alloc returned for a zero-sized layout, which is no block);    *)
(* heap.owner is who owns the buffer: "buffer" (the caller's binding),     *)
(* "iterator" (a WaterBufferOwnedIter) or "nobody" once it is dropped;     *)
(* heap.clone is the handle unsafe_clone returned, until it is dropped.    *)
(* The calls stay within what unsafe_clone asks of its caller: nothing is  *)
(* inserted through the clone, and the clone is dropped before the         *)
(* original is moved or dropped.                                           *)

MaxOwnCap == 2
MaxOwnSlice == 2
MaxOwnWritten == 3

OwnByte == {0}

\* alloc: a block that was not allocated before
Allocated(h) == [h EXCEPT !.frees = Append(@, 0), !.pointer = Len(h.frees) + 1]

\* dealloc(pointer)
Deallocated(h) ==
    IF h.pointer = 0 THEN h ELSE [h EXCEPT !.frees[h.pointer] = @ + 1]

\* realloc(pointer, ..): the block grows where it is, or its cells are moved
\* to a new block and it is freed; what a zero-sized layout gave becomes a
\* block
Reallocated(h) ==
    IF h.pointer = 0 THEN {Allocated(h)} ELSE {h, Allocated(Deallocated(h))}

\* the blocks after a write that took b to r: expand is what changes cap
Grown(h, b, r) == IF r.cap /= b.cap THEN Reallocated(h) ELSE {h}

\* unsafe_clone(): the fields of b and its pointer
unsafe_clone(b, pointer) ==
    [cap |-> b.cap, pointer |-> pointer, start_pos |-> b.start_pos,
     filled_data_length |-> b.filled_data_length]

\* the cells a handle of capacity c sees through the buffer's pointer (same)
\* or through another one, whose block nothing is known about
Seen(m, c, same) ==
    IF same THEN [i \in 0..(c - 1) |-> Load(m, i)] ELSE Alloc(c)

PushOwn ==
    /\ heap.owner = "buffer"
    /\ Len(written) < MaxOwnWritten
    /\ \E item \in OwnByte : \E r \in push(Buf, item) : \E h \in Grown(heap, Buf, r) :
          Fields(r) /\ heap' = h /\ Appended(r, <<item>>)
    /\ UNCHANGED twin

ExtendFromSliceOwn ==
    /\ heap.owner = "buffer"
    /\ \E s \in SlicesOf(OwnByte, MaxOwnSlice) :
          /\ Len(written) + Len(s) <= MaxOwnWritten
          /\ \E r \in extend_from_slice(Buf, s) : \E h \in Grown(heap, Buf, r) :
                Fields(r) /\ heap' = h /\ Appended(r, s)
    /\ UNCHANGED twin

UnsafeClone ==
    /\ heap.owner = "buffer"
    /\ heap.clone = None
    /\ heap' = [heap EXCEPT !.clone = Some(unsafe_clone(Buf, heap.pointer))]
    /\ UNCHANGED <<mode, cap, start_pos, filled_data_length, circular_position,
                   mem, panic, written, consumed, twin>>

\* Drop::drop of the clone (original is Some(e)): its fields are written to
\* *e, and nothing is freed
DropClone ==
    /\ heap.owner = "buffer"
    /\ heap.clone /= None
    /\ LET c == Unwrap(heap.clone)
       IN  /\ cap' = c.cap
           /\ start_pos' = c.start_pos
           /\ filled_data_length' = c.filled_data_length
           /\ mem' = Seen(mem, c.cap, c.pointer = heap.pointer)
           /\ heap' = [heap EXCEPT !.pointer = c.pointer, !.clone = None]
    /\ panic' = ""
    /\ UNCHANGED <<mode, circular_position, written, consumed, twin>>

\* into_owned_iter(): the buffer moves into the iterator
IntoOwnedIter ==
    /\ heap.owner = "buffer"
    /\ heap.clone = None
    /\ heap' = [heap EXCEPT !.owner = "iterator"]
    /\ UNCHANGED <<mode, cap, start_pos, filled_data_length, circular_position,
                   mem, panic, written, consumed, twin>>

\* Drop::drop of the buffer (original is None), where it is or inside the
\* iterator that owns it
DropBuffer ==
    /\ heap.owner /= "nobody"
    /\ heap.clone = None
    /\ heap' = [(IF cap > 0 THEN Deallocated(heap) ELSE heap) EXCEPT !.owner = "nobody"]
    /\ UNCHANGED <<mode, cap, start_pos, filled_data_length, circular_position,
                   mem, panic, written, consumed, twin>>

InitOwn ==
    \E c \in 0..MaxOwnCap :
        /\ mode = "linear"
        /\ cap = with_capacity(c).cap
        /\ start_pos = with_capacity(c).start_pos
        /\ filled_data_length = with_capacity(c).filled_data_length
        /\ circular_position = with_capacity(c).circular_position
        /\ mem = with_capacity(c).mem
        /\ panic = ""
        /\ written = <<>>
        /\ consumed = 0
        /\ twin = NoTwin
        /\ heap = [frees |-> IF c > 0 THEN <<0>> ELSE <<>>,
                   pointer |-> IF c > 0 THEN 1 ELSE 0,
                   owner |-> "buffer", clone |-> None]

NextOwn ==
    \/ PushOwn
    \/ ExtendFromSliceOwn
    \/ UnsafeClone
    \/ DropClone
    \/ IntoOwnedIter
    \/ DropBuffer

SpecOwn == InitOwn /\ [][NextOwn]_vars

-----------------------------------------------------------------------------
(* C21..C30                                                                *)

\* C21: ring build with cap > 0: whenever circular_position is Some(p), p is
\* the offset just after the most recently written byte, modulo cap, after
\* any sequence of push, extend_from_slice and advance; with nothing advanced
\* p is the number of bytes written since construction or reset, modulo cap.
C21_CursorAfterLastWrite ==
    /\ []((mode = "circular" /\ cap > 0 /\ consumed = 0 /\ circular_position /= None) =>
              Unwrap(circular_position) = Len(written) % cap)
    /\ [][(mode = "circular" /\ cap > 0 /\ Len(written') > Len(written)
              /\ circular_position' /= None) =>
            \E o \in 0..(cap - 1) :
                /\ mem'[o] = written'[Len(written')]
                /\ Unwrap(circular_position') = (o + 1) % cap]_vars

\* C22: every storage block is freed exactly once: no block is deallocated
\* twice, the block of a buffer that has not been dropped (cap > 0) is
\* allocated, and so is the block a handle from unsafe_clone refers to, and
\* once the buffer (or the iterator that owns it) is dropped every block
\* allocated for it has been freed.
C22_BlocksFreedOnce ==
    /\ \A k \in DOMAIN heap.frees : heap.frees[k] <= 1
    /\ (heap.owner /= "nobody" /\ cap > 0) =>
          heap.pointer /= 0 /\ heap.frees[heap.pointer] = 0
    /\ \A c \in heap.clone :
          c.cap > 0 => c.pointer /= 0 /\ heap.frees[c.pointer] = 0
    /\ heap.owner = "nobody" => \A k \in DOMAIN heap.frees : heap.frees[k] = 1

\* C23: linear build, cap = 0: the first push or non-empty extend_from_slice
\* succeeds, &b[..] is exactly the bytes written, and cap >= len() > 0.
C23_ZeroCapacityAllocates ==
    [][(mode = "linear" /\ cap = 0 /\ Len(written') > Len(written)) =>
          /\ panic' = ""
          /\ ViewNow' = written'
          /\ cap' >= LenNow'
          /\ LenNow' > 0]_vars

C23_Witness ==
    /\ mode = "linear"
    /\ cap = 64
    /\ consumed = 0
    /\ Len(written) = 1
    /\ ViewNow = written
    /\ panic = ""

\* C24: ring build, cap = 0: every push and extend_from_slice is a no-op: no
\* memory is written, len() = 0, cap = 0 and circular_position = None.
C24_ZeroCapacityRingNoOp ==
    (mode = "circular" /\ cap = 0) =>
        /\ LenNow = 0
        /\ circular_position = None
        /\ MemSize(mem) = 0

\* C25: linear build, every reachable state: un_initialized_remaining() and
\* remaining_mut() equal the length of chunk_mut(), cap - start_pos - len().
C25_RemainingMatchesChunk ==
    mode = "linear" =>
        /\ un_initialized_remaining(Buf) = chunk_mut("linear", Buf).len
        /\ remaining_mut(Buf) = chunk_mut("linear", Buf).len
        /\ chunk_mut("linear", Buf).len = cap - start_pos - LenNow

\* C26: capacity() is the cap field, whatever was pushed, extended or
\* advanced.
C26_CapacityIsCap == capacity(Buf) = cap

\* C27: ring build, after any sequence of push, extend_from_slice, advance(n)
\* with n <= len() and reset: start_pos <= cap.
C27_StartPosWithinCap == mode = "circular" => start_pos <= cap

NamedFields == <<cap, start_pos, filled_data_length, circular_position>>

C30_CompactionKeepsBytes ==
    [][(mode = "linear" /\ start_pos > 0 /\ filled_data_length > 0 /\ start_pos' = 0
            /\ Len(written') > Len(written)) =>
          /\ cap' = cap
          /\ SubSeq(ViewNow', 1, Len(ViewNow)) = ViewNow]_vars

-----------------------------------------------------------------------------
(* Growth, linear build: push, extend_from_slice and reserve from          *)
(* with_capacity(c) for c in 0..MaxGrowthCap, with slices of at most       *)
(* MaxGrowthSlice bytes and one slice longer than the first allocation's   *)
(* floor; at most MaxGrowthWritten bytes are appended before a write,      *)
(* between two resets.                                                     *)

MaxGrowthCap == 2
MaxGrowthSlice == 2
MaxGrowthWritten == 3

GrowthByte == {0}

\* one byte more than ap_size gives a buffer without a block that asks for nothing
BigSlice == ap_size(with_capacity(0), 0) + 1

\* the lengths of the slices
GrowthLens == (0..MaxGrowthSlice) \cup {BigSlice}

PushGrowth == PushOf(GrowthByte, MaxGrowthWritten)

ExtendFromSliceGrowth ==
    /\ mode = "linear"
    /\ Len(written) <= MaxGrowthWritten
    /\ \E k \in GrowthLens :
          /\ k <= MaxGrowthSlice => Len(written) + k <= MaxGrowthWritten
          /\ \E s \in [1..k -> GrowthByte] :
                \E r \in extend_from_slice(Buf, s) : Becomes(r) /\ Appended(r, s)

ReserveGrowth == ReserveOf(MaxGrowthSlice)

AdvanceGrowth == \E n \in 0..MaxGrowthSlice : AdvanceBy(n)

InitGrowth == \E c \in 0..MaxGrowthCap : Constructed("linear", c)

NextGrowth ==
    \/ PushGrowth
    \/ ExtendFromSliceGrowth
    \/ ReserveGrowth
    \/ AdvanceGrowth
    \/ Reset

SpecGrowth == InitGrowth /\ [][NextGrowth]_vars

-----------------------------------------------------------------------------
(* C31..C40                                                                *)

\* the number of bytes a step appends
Written == Len(written') - Len(written)

\* C31: linear build: a push or extend_from_slice of N bytes on a buffer
\* with start_pos > 0 whose live bytes and the N bytes fit the allocation
\* (len() + N <= cap) leaves cap as it was.
C31_CompactionBeforeGrowth ==
    [][(mode = "linear" /\ start_pos > 0 /\ Written >= 1 /\ LenNow + Written <= cap) =>
          cap' = cap]_vars

\* C32: linear build: a push or extend_from_slice of N bytes with
\* start_pos + len() + N <= cap leaves cap as it was and does not panic, also
\* when the bytes fill the room exactly (start_pos + len() + N = cap).
C32_HotPathKeepsCap ==
    [][(mode = "linear" /\ Written >= 1 /\ start_pos + LenNow + Written <= cap) =>
          cap' = cap /\ panic' = ""]_vars

\* a write has filled the room behind an advanced window exactly
C32_Witness ==
    /\ mode = "linear"
    /\ cap = MaxInitCap
    /\ start_pos = 1
    /\ filled_data_length = cap - 1
    /\ consumed = 1
    /\ Len(written) = cap
    /\ ViewNow = Pending

\* C33: ring build with cap > 0 and nothing advanced: circular_position is
\* None exactly while the bytes written since construction or the last reset
\* are at most cap (also when they fill the block exactly), and Some from
\* the first byte beyond.
C33_CursorAbsentUntilWrap ==
    (mode = "circular" /\ cap > 0 /\ consumed = 0) =>
        (circular_position = None <=> Len(written) <= cap)

\* the block has been filled exactly
C33_Witness ==
    /\ mode = "circular"
    /\ cap = MaxInitCap
    /\ consumed = 0
    /\ Len(written) = cap
    /\ circular_position = None
    /\ ViewNow = written

\* how often the value v occurs in the sequence q
Count(q, v) == Cardinality({i \in 1..Len(q) : q[i] = v})

\* C34: ring build: one extend_from_slice of at least cap bytes leaves
\* len() = cap and &b[..] holding the last cap bytes of the slice, each as
\* often as it occurs among them, whatever the state before.
C34_BigWriteKeepsLastCap ==
    [][(mode = "circular" /\ cap > 0 /\ Written >= cap /\ ExtendFromSliceCircular) =>
          /\ LenNow' = cap
          /\ \A v \in Byte \cup {Indet} :
                Count(ViewNow', v) = Count(LastOf(written', cap), v)]_vars

\* C35: ring build: in every state push, extend_from_slice, advance and
\* reset reach, start_pos + len() <= cap, so &b[..] ends inside the block.
C35_ViewInsideAllocation == mode = "circular" => start_pos + LenNow <= cap

\* C36: ring build with circular_position = Some(p): un_initialized_remaining()
\* is cap - p for p > 0 and cap - filled_data_length for p = 0, so 0 for a
\* full buffer; chunk_mut() is empty whenever start_pos + filled_data_length
\* >= cap.
C36_SpareAfterWrap ==
    mode = "circular" =>
        /\ \A p \in circular_position :
              /\ un_initialized_remaining_circular(Buf) =
                    (IF p > 0 THEN cap - p ELSE cap - filled_data_length)
              /\ (p = 0 /\ filled_data_length = cap) =>
                    un_initialized_remaining_circular(Buf) = 0
        /\ start_pos + filled_data_length >= cap => chunk_mut("circular", Buf).len = 0

\* a full ring whose cursor is inside the block
C36_Witness ==
    /\ mode = "circular"
    /\ cap = MaxInitCap
    /\ filled_data_length = cap
    /\ circular_position = Some(1)
    /\ un_initialized_remaining_circular(Buf) = cap - 1
    /\ chunk_mut("circular", Buf).len = 0

\* C37: ring build with cap > 0: a cursor Some(p) has p < cap, no byte has
\* been stored outside the block, and the last byte a push or
\* extend_from_slice wrote is in a cell of the block.
C37_CursorAndWritesInsideBlock ==
    /\ []((mode = "circular" /\ cap > 0) =>
              /\ \A p \in circular_position : p < cap
              /\ MemSize(mem) = cap)
    /\ [][(mode = "circular" /\ cap > 0 /\ Written >= 1) =>
            \E o \in 0..(cap - 1) : mem'[o] = written'[Len(written')]]_vars

\* the cursor has reached the last cell of the block
C37_Witness ==
    /\ mode = "circular"
    /\ cap >= 2
    /\ circular_position = Some(cap - 1)
    /\ MemSize(mem) = cap
    /\ Len(written) > cap

\* C38: ring build with cap > 0: extend_from_slice of any slice returns,
\* every iteration of its loop consumes at least one byte, and together
\* they consume the whole slice.
C38_ExtendTerminates ==
    (mode = "circular" /\ cap > 0) =>
        \A s \in SlicesOf({0}, MaxSlice) :
            /\ extend_loop(Buf, s).panic /= Spins
            /\ extend_run(Buf, s).iterations <= Len(s)
            /\ extend_run(Buf, s).consumed = Len(s)

\* a slice that takes the loop more than one iteration
C38_Witness ==
    /\ mode = "circular"
    /\ cap = 2
    /\ circular_position = Some(1)
    /\ extend_run(Buf, <<0, 0, 0>>).iterations = 2
    /\ Len(written) = 3

\* C39: ring build: b[i] returns a byte or fails, for every index and in
\* every state, also with filled_data_length = 0.
C39_IndexTerminates ==
    mode = "circular" => \A i \in IndexArgs : ~index("circular", Buf, i).hangs

====
